---- MODULE Spec2Model ----
(***************************************************************************)
(* SurfLiquid Velocity: the pool monitor (candle aggregation and the       *)
(* breakout signal state machine of updateCandle) and the trade executor   *)
(* (processSignal) that consumes the stored signal records.                *)
(*                                                                         *)
(* Prices are integers.  A range bound is kept multiplied by               *)
(* RANGE_DENOMINATOR, so that price * (1 +/- 0.1 / 100) is exact:          *)
(* upper = price * 1001 and lower = price * 999 in units of 1/1000.        *)
(* Time is in milliseconds, as Date.now().                                 *)
(***************************************************************************)
EXTENDS Integers, Sequences, FiniteSets, TLC

\* ---------------------------------------------------------------- bounds
\* number of mainLoop invocations of the monitor that are explored
MaxTicks == 4

\* number of updateCandle invocations that may be suspended at the same time
MaxInFlight == 2

\* ------------------------------------------------------ program constants
FETCH_INTERVAL == 3000

CANDLE_INTERVAL == 10000

\* RANGE_PERCENTAGE = 0.1 (percent): RANGE_PERCENTAGE / 100 = 1 / 1000
RANGE_DENOMINATOR == 1000

\* ------------------------------------------------------------ input sets
\* prices a fetch may return: around 3100, whose range is [3096.9, 3103.1],
\* one price inside it, one above and one below; none lies on a range bound
Prices == {3090, 3098, 3100, 3105}

\* the non-finite price calculatePriceFromSqrtPriceX96 returns for a pool
\* whose sqrtPriceX96 is 0 (1 / 0): it compares above every finite price and
\* every finite range bound, as this value does
Infinity == 1000000

\* time between two consecutive runs of mainLoop's body: the timer period,
\* or a longer gap when fetches were slow or returned null
Gaps == {FETCH_INTERVAL, CANDLE_INTERVAL}

VARIABLES
  now,                \* Date.now() at the latest mainLoop body
  ticks,              \* number of mainLoop bodies run so far
  currentCandle,      \* the open candle, NoCandle for null
  candles,            \* the closed candles, in push order
  currentRanges,      \* the Range, NoRanges for null
  lastPositionStatus, \* "null", "Monitoring", "Price-UP" or "Price-DOWN"
  emitted,            \* the records handed to savePositionData, in call order
  candlesCollection,  \* the candles collection (Candle documents), in insertion order
  inflight,           \* updateCandle invocations suspended in await savePositionData
  positions,          \* the positions collection, in insertion order
  tradingState,       \* the trade executor's tradingState
  dryRun,             \* config.dryRun
  executor,           \* the executor process: where it is in its life, and
                      \* whether PRIVATE_KEY and ROUTER_ADDRESS are configured
  wallet,             \* the wallet's token balances, both in USD
  polls,              \* the trade executor's mainLoop invocations in flight
  pollCount,          \* number of mainLoop invocations of the executor so far
  overlapped,         \* history: two invocations of the executor were in flight at once
  history,            \* history, per record _id: processSignal calls, buyWeth/sellWeth
                      \* calls started (swaps) and successful ones (trades)
  response,           \* the latest response of GET /api/position-range/:timestamp
  queries,            \* number of requests of that route served so far
  request,            \* the request of that route being served, between its awaits
  migration,          \* migrate-csv-to-mongodb.js: the CSV files, the Position
                      \* schema in use and the number of runs so far
  cleanup             \* cleanup-duplicates.js: the latest removeDuplicates run

monitorVars == <<now, ticks, currentCandle, candles, currentRanges,
                 lastPositionStatus, emitted, inflight, candlesCollection>>

traderVars == <<tradingState, dryRun, executor, wallet, polls, pollCount, overlapped, history>>

queryVars == <<response, queries, request>>

scriptVars == <<migration, cleanup>>

vars == <<now, ticks, currentCandle, candles, currentRanges,
          lastPositionStatus, emitted, inflight, candlesCollection,
          positions, tradingState, dryRun, executor, wallet, polls, pollCount, overlapped,
          history, response, queries, request, migration, cleanup>>

NoCandle == [timestamp |-> -1, open |-> 0, high |-> 0, low |-> 0, close |-> 0,
             liquidity |-> 0]

NoRanges == [upper |-> 0, lower |-> 0]

Max(a, b) == IF a >= b THEN a ELSE b

Min(a, b) == IF a <= b THEN a ELSE b

\* Math.floor(now / CANDLE_INTERVAL) * CANDLE_INTERVAL
CandleStart(t) == (t \div CANDLE_INTERVAL) * CANDLE_INTERVAL

\* NewRanges with both bounds above the price
NewRanges_AbovePrice(openPrice) ==
  [upper |-> openPrice * (RANGE_DENOMINATOR + 2),
   lower |-> openPrice * (RANGE_DENOMINATOR + 1)]

\* NewRanges with the lower bound computed with the upper bound's factor
NewRanges_LowerAsUpper(openPrice) ==
  [upper |-> openPrice * (RANGE_DENOMINATOR + 1),
   lower |-> openPrice * (RANGE_DENOMINATOR + 1)]

\* { upper: openPrice * (1 + RANGE_PERCENTAGE / 100),
\*   lower: openPrice * (1 - RANGE_PERCENTAGE / 100) }
NewRanges(openPrice) ==
  [upper |-> openPrice * (RANGE_DENOMINATOR + 1),
   lower |-> openPrice * (RANGE_DENOMINATOR - 1)]

\* currentPrice >= currentRanges.lower && currentPrice <= currentRanges.upper
IsInRange(currentPrice, ranges) ==
  /\ currentPrice * RANGE_DENOMINATOR >= ranges.lower
  /\ currentPrice * RANGE_DENOMINATOR <= ranges.upper

\* currentPrice > currentRanges.upper
IsAbove(currentPrice, ranges) ==
  currentPrice * RANGE_DENOMINATOR > ranges.upper

IsPending(status) == status \in {"Price-UP", "Price-DOWN"}

IsConfirmed(status) == status \in {"Open-UP", "Open-DOWN"}

\* the candle opened from a tick
NewCandle(candleStart, data) ==
  [timestamp |-> candleStart, open |-> data.price, high |-> data.price,
   low |-> data.price, close |-> data.price, liquidity |-> data.liquidity]

\* UpdatedCandle with the close price taken for the high
UpdatedCandle_HighIsClose(candle, data) ==
  [candle EXCEPT !.high = data.price,
                 !.low = Min(candle.low, data.price),
                 !.close = data.price,
                 !.liquidity = data.liquidity]

UpdatedCandle_LowKept(candle, data) ==
  [candle EXCEPT !.high = Max(candle.high, data.price),
                 !.close = data.price,
                 !.liquidity = data.liquidity]

\* the open candle after a tick of its own bucket
UpdatedCandle(candle, data) ==
  [candle EXCEPT !.high = Max(candle.high, data.price),
                 !.low = Min(candle.low, data.price),
                 !.close = data.price,
                 !.liquidity = data.liquidity]

\* RebalanceRecord with the ranges taken around the closed candle's close
RebalanceRecord_RangeOfCandle(data, ranges, isUpRebalance, candle) ==
  [timestamp |-> data.timestamp,
   status |-> IF isUpRebalance THEN "Open-UP" ELSE "Open-DOWN",
   upper_range |-> NewRanges(candle.close).upper,
   lower_range |-> NewRanges(candle.close).lower,
   open |-> data.price, high |-> data.price, low |-> data.price,
   close |-> data.price,
   rebalance_type |-> IF isUpRebalance THEN "Rebalance UP" ELSE "Rebalance DOWN",
   candle |-> candle.timestamp]

\* the record of a confirmed breakout: the new ranges, the tick price as OHLC
RebalanceRecord(data, ranges, isUpRebalance, candle) ==
  [timestamp |-> data.timestamp,
   status |-> IF isUpRebalance THEN "Open-UP" ELSE "Open-DOWN",
   upper_range |-> ranges.upper, lower_range |-> ranges.lower,
   open |-> data.price, high |-> data.price, low |-> data.price,
   close |-> data.price,
   rebalance_type |-> IF isUpRebalance THEN "Rebalance UP" ELSE "Rebalance DOWN",
   candle |-> candle.timestamp]

\* StatusRecord with the ranges recomputed around the candle's close
StatusRecord_Recentred(data, status, ranges, candle) ==
  [timestamp |-> data.timestamp, status |-> status,
   upper_range |-> candle.close * (RANGE_DENOMINATOR + 1),
   lower_range |-> candle.close * (RANGE_DENOMINATOR - 1),
   open |-> candle.open, high |-> candle.high, low |-> candle.low,
   close |-> candle.close, rebalance_type |-> "N/A",
   candle |-> candle.timestamp]

\* the record of a Monitoring or Price-UP/DOWN evaluation: the unchanged
\* ranges and the closed candle's OHLC
StatusRecord(data, status, ranges, candle) ==
  [timestamp |-> data.timestamp, status |-> status,
   upper_range |-> ranges.upper, lower_range |-> ranges.lower,
   open |-> candle.open, high |-> candle.high, low |-> candle.low,
   close |-> candle.close, rebalance_type |-> "N/A",
   candle |-> candle.timestamp]

MonitorInit ==
  /\ now = 0
  /\ ticks = 0
  /\ currentCandle = NoCandle
  /\ candles = <<>>
  /\ currentRanges = NoRanges
  /\ lastPositionStatus = "null"
  /\ emitted = <<>>
  /\ inflight = <<>>
  /\ candlesCollection = <<>>

\* streamPositionData: seeds the ranges from the open candle on the first run
StreamRanges(candle, ranges) ==
  IF ranges = NoRanges THEN NewRanges(candle.open) ELSE ranges

\* StreamStatus without the assignment of 'Monitoring'
StreamStatus_NotSet(ranges, status) == status

StreamStatus(ranges, status) ==
  IF ranges = NoRanges THEN "Monitoring" ELSE status

\* the document new Candle({...}) builds: the prices rounded to two decimals
\* (the model's prices are whole numbers, which the rounding leaves as they are)
CandleDoc(candle) ==
  [timestamp |-> candle.timestamp, open |-> candle.open, high |-> candle.high,
   low |-> candle.low, close |-> candle.close, liquidity |-> candle.liquidity]

\* SaveCandleToMongoDB without the unique index on timestamp
SaveCandleToMongoDB_NoUniqueIndex(store, candle) ==
  Append(store, CandleDoc(candle))

\* saveCandleToMongoDB: the insert, which the unique index on timestamp
\* rejects with error 11000 when the timestamp is stored already; the error is
\* caught and logged
SaveCandleToMongoDB(store, candle) ==
  IF \E k \in 1..Len(store) : store[k].timestamp = candle.timestamp
  THEN store
  ELSE Append(store, CandleDoc(candle))

\* The candle-close evaluation of updateCandle, up to its first await.
\* kind: "back" (pending, back in range: no await), "rebalance", "pending",
\* "monitoring", or "none" (no branch taken).
EvalKind(status, price, ranges) ==
  IF IsPending(status)
  THEN IF IsInRange(price, ranges) THEN "back" ELSE "rebalance"
  ELSE IF ~IsInRange(price, ranges) THEN "pending"
  ELSE IF status = "Monitoring" THEN "monitoring"
  ELSE "none"

\* EvalRecord with the direction of a rebalance taken from the pending status
EvalRecord_PendingDirection(kind, status, data, ranges, candle) ==
  CASE kind = "rebalance" ->
         RebalanceRecord(data, NewRanges(data.price), status = "Price-UP", candle)
    [] kind = "pending" ->
         StatusRecord(data, IF IsAbove(data.price, ranges)
                            THEN "Price-UP" ELSE "Price-DOWN", ranges, candle)
    [] kind = "monitoring" ->
         StatusRecord(data, "Monitoring", ranges, candle)

\* the record the branch hands to savePositionData; the direction of a
\* rebalance comes from the price alone, status (lastPositionStatus) is not read
EvalRecord(kind, status, data, ranges, candle) ==
  CASE kind = "rebalance" ->
         RebalanceRecord(data, NewRanges(data.price),
                         IsAbove(data.price, ranges), candle)
    [] kind = "pending" ->
         StatusRecord(data, IF IsAbove(data.price, ranges)
                            THEN "Price-UP" ELSE "Price-DOWN", ranges, candle)
    [] kind = "monitoring" ->
         StatusRecord(data, "Monitoring", ranges, candle)

\* One run of mainLoop's body with the fetched data: updateCandle up to its
\* first await (or to its end), then streamPositionData.
MainLoop(price, gap) ==
  /\ ticks < MaxTicks
  /\ LET t == now + gap
         \* the pool's liquidity is read with every tick: the readings are
         \* told apart by the time of the read
         data == [timestamp |-> t, price |-> price, liquidity |-> t]
         candleStart == CandleStart(t)
     IN
     /\ now' = t
     /\ ticks' = ticks + 1
     /\ IF currentCandle = NoCandle
        THEN \* first tick: open a candle, streamPositionData seeds the ranges
             /\ currentCandle' = NewCandle(candleStart, data)
             /\ currentRanges' = StreamRanges(currentCandle', currentRanges)
             /\ lastPositionStatus' = StreamStatus(currentRanges, lastPositionStatus)
             /\ UNCHANGED <<candles, emitted, inflight, candlesCollection>>
        ELSE IF currentCandle.timestamp # candleStart
        THEN \* candle close
             LET kind == EvalKind(lastPositionStatus, price, currentRanges)
             IN
             /\ candles' = Append(candles, currentCandle)
             /\ candlesCollection' = SaveCandleToMongoDB(candlesCollection, currentCandle)
             /\ IF kind \in {"back", "none"}
                THEN \* no await: updateCandle runs to its end
                     /\ lastPositionStatus' = IF kind = "back" THEN "Monitoring"
                                              ELSE lastPositionStatus
                     /\ currentCandle' = NewCandle(candleStart, data)
                     /\ UNCHANGED <<currentRanges, emitted, inflight>>
                ELSE \* suspended in await savePositionData
                     /\ Len(inflight) < MaxInFlight
                     /\ currentRanges' = IF kind = "rebalance"
                                         THEN NewRanges(price) ELSE currentRanges
                     /\ emitted' = Append(emitted,
                                          EvalRecord(kind, lastPositionStatus, data,
                                                     currentRanges, currentCandle))
                     /\ inflight' = Append(inflight,
                                      [kind |-> kind,
                                       status |-> emitted'[Len(emitted')].status,
                                       record |-> emitted'[Len(emitted')],
                                       data |-> data,
                                       candleStart |-> candleStart])
                     /\ UNCHANGED <<currentCandle, lastPositionStatus>>
        ELSE \* a tick of the open candle's bucket
             /\ currentCandle' = UpdatedCandle(currentCandle, data)
             /\ UNCHANGED <<candles, currentRanges, lastPositionStatus,
                            emitted, inflight, candlesCollection>>
  /\ UNCHANGED <<positions, traderVars, queryVars, scriptVars>>

RemoveAt(s, i) == [j \in 1..(Len(s) - 1) |-> IF j < i THEN s[j] ELSE s[j + 1]]

\* the document new Position(positionData).save() inserts
PositionDoc(record, id) ==
  [_id |-> id, timestamp |-> record.timestamp, status |-> record.status,
   upper_range |-> record.upper_range, lower_range |-> record.lower_range,
   open |-> record.open, high |-> record.high, low |-> record.low,
   close |-> record.close, rebalance_type |-> record.rebalance_type]

\* savePositionData: the insert, or nothing when it throws (the error is
\* caught and logged)
SavePositionData(store, record, saved) ==
  IF saved THEN Append(store, PositionDoc(record, Len(store) + 1)) ELSE store

\* StatusAfterSave without the assignment of the Pending status
StatusAfterSave_PendingNotSet(cont, status) ==
  CASE cont.kind = "rebalance" -> "Monitoring"
    [] cont.kind = "pending" -> status
    [] cont.kind = "monitoring" -> status

\* the status assignment after the await of each branch
StatusAfterSave(cont, status) ==
  CASE cont.kind = "rebalance" -> "Monitoring"
    [] cont.kind = "pending" -> cont.status
    [] cont.kind = "monitoring" -> status

\* The rest of a suspended updateCandle, once savePositionData has returned:
\* the status assignment of its branch, then the new candle.
ResumeUpdateCandle(i, saved) ==
  /\ i \in 1..Len(inflight)
  /\ LET cont == inflight[i]
     IN
     /\ positions' = SavePositionData(positions, cont.record, saved)
     /\ lastPositionStatus' = StatusAfterSave(cont, lastPositionStatus)
     /\ currentCandle' = NewCandle(cont.candleStart, cont.data)
     /\ inflight' = RemoveAt(inflight, i)
  /\ UNCHANGED <<now, ticks, candles, currentRanges, emitted, candlesCollection>>
  /\ UNCHANGED <<traderVars, queryVars, scriptVars>>

\* ------------------------------------------------------------------------
\* The trade executor (trade-executor.js)
\* ------------------------------------------------------------------------

\* config.maxTradesPerHour (MAX_TRADES_PER_HOUR), a small configured value
maxTradesPerHour == 1

\* number of records the monitor stores while the executor runs
MaxSignals == 2

\* number of mainLoop invocations of the executor in flight at the same time
MaxPolls == 2

\* number of mainLoop invocations of the executor that are explored
MaxPollCount == 2

\* config.tradeSizeUsd
tradeSizeUsd == 15

\* config.minBalanceUsd
minBalanceUsd == 10

\* the smallest trade size processSignal accepts
MinTradeSize == 5

\* wallets at startup, USDC and WETH both valued in USD
Wallets == {[usdc |-> 50, weth |-> 0], [usdc |-> 20, weth |-> 30],
            [usdc |-> 8, weth |-> 4]}

Statuses == {"Open-UP", "Open-DOWN", "Monitoring", "Price-UP", "Price-DOWN"}

NoBalances == [usdc |-> 0, weth |-> 0]

\* the body of the response, null written as -1 or "null"
ResponseBody(error, start, end, upper, lower, duration, occurred, type, docs) ==
  [error |-> error, rangeStart |-> start, rangeEnd |-> end,
   upperRange |-> upper, lowerRange |-> lower, duration |-> duration,
   rebalanceOccurred |-> occurred, rebalanceType |-> type,
   positions |-> docs]

\* { error: 'No active position found for this timestamp' }
NoActivePosition == ResponseBody(TRUE, -1, -1, 0, 0, -1, FALSE, "null", <<>>)

\* no request of the route served yet
NoResponse ==
  [clicked |-> -1, count |-> -1, repeated |-> FALSE, body |-> NoActivePosition]

\* the migration script not run, no CSV files
NoMigration == [candles |-> <<>>, positions |-> <<>>, schema |-> "ohlc", runs |-> 0]

\* the cleanup script not run
NoCleanup == [runs |-> 0, input |-> <<>>, output |-> <<>>, before |-> 0,
              duplicates |-> 0, after |-> 0]

\* no request of the route being served
NoRequest ==
  [pc |-> "idle", clicked |-> -1, first |-> -1, activePosition |-> [_id |-> 0],
   rangeStart |-> [_id |-> 0], rangeEnd |-> [_id |-> 0], endTime |-> -1, date |-> -1]

NoHistory == [id \in 1..MaxSignals |-> [calls |-> 0, swaps |-> 0, trades |-> 0]]

\* startTrading: the starting position
StartPosition(balances) ==
  IF balances.weth > balances.usdc THEN "WETH" ELSE "USDC"

\* getLatestSignal: Position.findOne().sort({ timestamp: -1 })
GetLatestSignal(store) ==
  CHOOSE d \in {store[k] : k \in 1..Len(store)} :
    \A e \in {store[k] : k \in 1..Len(store)} :
      \/ e.timestamp < d.timestamp
      \/ e.timestamp = d.timestamp /\ e._id <= d._id

\* Math.min(config.tradeSizeUsd, balances.usdc * 0.4), rounded down
TradeSize(balances) == Min(tradeSizeUsd, (balances.usdc * 4) \div 10)

\* TradeTooSmall without the floor
TradeTooSmall_NoFloor(balances) == FALSE

\* tradeSize < 5
TradeTooSmall(balances) ==
  Min(tradeSizeUsd * 10, balances.usdc * 4) < MinTradeSize * 10

\* TotalValueUsd without the value of the WETH balance
TotalValueUsd_UsdcOnly(balances, priceKnown) == balances.usdc

\* balances.usdc + (balances.weth * price), price null counting as 0
TotalValueUsd(balances, priceKnown) ==
  balances.usdc + (IF priceKnown THEN balances.weth ELSE 0)

\* the executor after startTrading, with both parameters configured
Polling == [pc |-> "polling", privateKey |-> TRUE, routerAddress |-> TRUE]

\* the process has not exited: timers fire and awaited calls return
Alive == executor.pc \in {"polling", "shuttingDown"}

TraderInit ==
  /\ positions = <<>>
  /\ dryRun \in BOOLEAN
  /\ executor = Polling
  /\ wallet \in Wallets
  /\ tradingState = [position |-> StartPosition(wallet), lastSignalId |-> 0,
                     tradesExecuted |-> 0]
  /\ polls = <<>>
  /\ pollCount = 0
  /\ overlapped = FALSE
  /\ history = NoHistory
  /\ response = NoResponse
  /\ queries = 0
  /\ request = NoRequest
  /\ migration = NoMigration
  /\ cleanup = NoCleanup

\* The monitor process stores one more record.
SignalStored(status) ==
  /\ Len(positions) < MaxSignals
  /\ LET t == (Len(positions) + 1) * CANDLE_INTERVAL
         data == [timestamp |-> t, price |-> 3100, liquidity |-> t]
         candle == NewCandle(t - CANDLE_INTERVAL, data)
         record == IF IsConfirmed(status)
                   THEN RebalanceRecord(data, NewRanges(data.price),
                                        status = "Open-UP", candle)
                   ELSE StatusRecord(data, status, NewRanges(data.price), candle)
     IN positions' = SavePositionData(positions, record, TRUE)
  /\ UNCHANGED <<monitorVars, queryVars, scriptVars, traderVars>>

\* mainLoop of the executor: the timer fires and getLatestSignal returns the
\* latest record (a null result ends the invocation at once)
TradeMainLoop ==
  /\ Alive
  /\ Len(polls) < MaxPolls
  /\ pollCount < MaxPollCount
  /\ Len(positions) > 0
  /\ polls' = Append(polls, [pc |-> "processSignal",
                             signal |-> GetLatestSignal(positions),
                             balances |-> NoBalances, amount |-> 0])
  /\ pollCount' = pollCount + 1
  /\ overlapped' = (overlapped \/ Len(polls) > 0)
  /\ UNCHANGED <<monitorVars, queryVars, scriptVars, positions, tradingState, dryRun, executor, wallet, history>>

\* SkipSignal without the status guard
SkipSignal_NoStatusGuard(state, signal) ==
  \/ state.lastSignalId = signal._id
  \/ state.tradesExecuted >= maxTradesPerHour

\* SkipSignal without the lastSignalId guard
SkipSignal_NoReplayGuard(state, signal) ==
  \/ ~IsConfirmed(signal.status)
  \/ state.tradesExecuted >= maxTradesPerHour

\* the three guards at the head of processSignal
SkipSignal(state, signal) ==
  \/ state.lastSignalId = signal._id
  \/ ~IsConfirmed(signal.status)
  \/ state.tradesExecuted >= maxTradesPerHour

\* processSignal up to await getBalances()
ProcessSignal(i) ==
  /\ Alive
  /\ i \in 1..Len(polls)
  /\ polls[i].pc = "processSignal"
  /\ LET signal == polls[i].signal
     IN
     /\ history' = [history EXCEPT ![signal._id].calls = @ + 1]
     /\ IF SkipSignal(tradingState, signal)
        THEN polls' = RemoveAt(polls, i)
        ELSE polls' = [polls EXCEPT ![i].pc = "getBalances"]
  /\ UNCHANGED <<monitorVars, queryVars, scriptVars, positions, tradingState, dryRun, executor, wallet,
                 pollCount, overlapped>>

\* getBalances returns: the wallet's balances, or zeros when the call failed
GetBalances(i, ok) ==
  /\ Alive
  /\ i \in 1..Len(polls)
  /\ polls[i].pc = "getBalances"
  /\ polls' = [polls EXCEPT ![i].pc = "getCurrentPrice",
                            ![i].balances = IF ok THEN wallet ELSE NoBalances]
  /\ UNCHANGED <<monitorVars, queryVars, scriptVars, positions, tradingState, dryRun, executor, wallet,
                 pollCount, overlapped, history>>

\* getCurrentPrice returns (priceKnown is FALSE for null): the balance check,
\* the position check and the call of buyWeth or sellWeth
DecideTrade(i, priceKnown) ==
  /\ Alive
  /\ i \in 1..Len(polls)
  /\ polls[i].pc = "getCurrentPrice"
  /\ LET signal == polls[i].signal
         balances == polls[i].balances
     IN
     IF TotalValueUsd(balances, priceKnown) < minBalanceUsd
     THEN /\ polls' = RemoveAt(polls, i)
          /\ UNCHANGED <<tradingState, history>>
     ELSE IF signal.status = "Open-UP"
     THEN IF tradingState.position = "WETH"
          THEN /\ tradingState' = [tradingState EXCEPT !.lastSignalId = signal._id]
               /\ polls' = RemoveAt(polls, i)
               /\ UNCHANGED history
          ELSE IF TradeTooSmall(balances)
          THEN /\ polls' = RemoveAt(polls, i)
               /\ UNCHANGED <<tradingState, history>>
          ELSE /\ polls' = [polls EXCEPT ![i].pc = "buyWeth",
                                         ![i].amount = TradeSize(balances)]
               /\ history' = [history EXCEPT ![signal._id].swaps = @ + 1]
               /\ UNCHANGED tradingState
     ELSE IF tradingState.position = "USDC" \/ balances.weth = 0
          THEN /\ tradingState' = [tradingState EXCEPT !.lastSignalId = signal._id]
               /\ polls' = RemoveAt(polls, i)
               /\ UNCHANGED history
          ELSE /\ polls' = [polls EXCEPT ![i].pc = "sellWeth",
                                         ![i].amount = balances.weth]
               /\ history' = [history EXCEPT ![signal._id].swaps = @ + 1]
               /\ UNCHANGED tradingState
  /\ UNCHANGED <<monitorVars, queryVars, scriptVars, positions, dryRun, executor, wallet, pollCount, overlapped>>

\* the wallet after a swap that went through (unchanged in a dry run)
WalletAfter(w, side, amount) ==
  IF side = "buyWeth"
  THEN [usdc |-> w.usdc - amount, weth |-> w.weth + amount]
  ELSE [usdc |-> w.usdc + amount, weth |-> w.weth - amount]

\* a swap can only go through when the wallet holds the amount
CanSwap(w, side, amount) ==
  IF side = "buyWeth" THEN w.usdc >= amount ELSE w.weth >= amount

\* ExecuteSwap without the test of config.dryRun
ExecuteSwap_NoDryRun(dry, router, txOk) ==
  IF ~router THEN [success |-> FALSE, sent |-> FALSE]
  ELSE [success |-> txOk, sent |-> TRUE]

\* executeSwap: in a dry run the synthetic result, without a router the
\* failure, otherwise the approval and router calls (sent), which succeed
\* (txOk) or throw; router is TRUE when routerContract is set
ExecuteSwap(dry, router, txOk) ==
  IF dry THEN [success |-> TRUE, sent |-> FALSE]
  ELSE IF ~router THEN [success |-> FALSE, sent |-> FALSE]
  ELSE [success |-> txOk, sent |-> TRUE]

\* buyWeth / sellWeth: the failure when getCurrentPrice returns null,
\* otherwise the result of executeSwap
SwapResult(dry, priceKnown, router, txOk) ==
  IF ~priceKnown THEN [success |-> FALSE, sent |-> FALSE]
  ELSE ExecuteSwap(dry, router, txOk)

\* buyWeth / sellWeth returns with result.success = success: the position
\* flip and the trade count on success, then lastSignalId in both cases
FinishTrade(i, success) ==
  /\ Alive
  /\ i \in 1..Len(polls)
  /\ polls[i].pc \in {"buyWeth", "sellWeth"}
  /\ LET side == polls[i].pc
         signal == polls[i].signal
     IN
     /\ \E priceKnown, txOk \in BOOLEAN :
          LET router == executor.privateKey /\ executor.routerAddress
              result == SwapResult(dryRun, priceKnown, router, txOk)
          IN /\ result.success = success
             /\ (result.success /\ result.sent)
                  => CanSwap(wallet, side, polls[i].amount)
             /\ wallet' = IF result.success /\ result.sent
                          THEN WalletAfter(wallet, side, polls[i].amount)
                          ELSE wallet
     /\ tradingState' =
          [position |-> IF success
                        THEN (IF side = "buyWeth" THEN "WETH" ELSE "USDC")
                        ELSE tradingState.position,
           tradesExecuted |-> IF success THEN tradingState.tradesExecuted + 1
                              ELSE tradingState.tradesExecuted,
           lastSignalId |-> signal._id]
     /\ history' = [history EXCEPT ![signal._id].trades =
                                     IF success THEN @ + 1 ELSE @]
     /\ polls' = RemoveAt(polls, i)
  /\ UNCHANGED <<monitorVars, queryVars, scriptVars, positions, dryRun, executor, pollCount, overlapped>>

\* initializeWeb3: FALSE (read-only mode) without a private key
InitializeWeb3(cfg) == cfg.privateKey

\* startTrading up to the first mainLoop: the position is taken from the
\* balances when web3 is ready, and polling starts in either case
StartTrading ==
  /\ executor.pc = "starting"
  /\ LET web3Ready == InitializeWeb3(executor)
     IN tradingState' = [tradingState EXCEPT
                          !.position = IF web3Ready THEN StartPosition(wallet) ELSE @]
  /\ executor' = [executor EXCEPT !.pc = "polling"]
  /\ UNCHANGED <<monitorVars, queryVars, scriptVars, positions, dryRun, wallet, polls,
                 pollCount, overlapped, history>>

\* process.on('SIGINT'): the handler starts and awaits getBalances
Sigint ==
  /\ executor.pc = "polling"
  /\ executor' = [executor EXCEPT !.pc = "shuttingDown"]
  /\ UNCHANGED <<monitorVars, queryVars, scriptVars, positions, tradingState, dryRun, wallet,
                 polls, pollCount, overlapped, history>>

\* the handler's awaits have returned: the summary is logged and
\* process.exit(0) ends the process, whatever is in flight
Exit ==
  /\ executor.pc = "shuttingDown"
  /\ executor' = [executor EXCEPT !.pc = "exited"]
  /\ UNCHANGED <<monitorVars, queryVars, scriptVars, positions, tradingState, dryRun, wallet,
                 polls, pollCount, overlapped, history>>

\* ------------------------------------------------------------------------
\* The range query (GET /api/position-range/:timestamp)
\* ------------------------------------------------------------------------

\* number of documents in the positions collection while the route is queried
MaxRecords == 3

\* number of requests of the route that are explored
MaxQueries == 2

\* statuses of the documents of the collection: those of the schema in use
\* and those of the documents written before it
QueryStatuses == {"Position Open", "Price Out of Range - UP", "Monitoring", "Open-UP"}

\* prices the ranges of the stored documents are centred on
QueryPrices == {3100, 3105}

\* req.params.timestamp
Clicks == {10000, 35000}

\* a findOne without a match
NoDoc == [_id |-> 0]

Docs(store) == {store[k] : k \in 1..Len(store)}

\* .sort({ timestamp: 1 }), the first document
Earliest(docs) ==
  CHOOSE d \in docs : \A e \in docs :
    \/ d.timestamp < e.timestamp
    \/ d.timestamp = e.timestamp /\ d._id <= e._id

\* .sort({ timestamp: -1 }), the first document
Latest(docs) ==
  CHOOSE d \in docs : \A e \in docs :
    \/ e.timestamp < d.timestamp
    \/ e.timestamp = d.timestamp /\ e._id <= d._id

RECURSIVE SortAsc(_)
\* .sort({ timestamp: 1 })
SortAsc(docs) ==
  IF docs = {} THEN <<>>
  ELSE LET d == Earliest(docs) IN <<d>> \o SortAsc(docs \ {d})

\* the position active at the clicked time
ActivePosition(store, clickedTime) ==
  LET found == {d \in Docs(store) : /\ d.timestamp <= clickedTime
                                    /\ d.status = "Position Open"}
  IN IF found = {} THEN NoDoc ELSE Latest(found)

\* the first Position Open with these exact ranges
RangeStart(store, upper_range, lower_range) ==
  LET found == {d \in Docs(store) : /\ d.upper_range = upper_range
                                    /\ d.lower_range = lower_range
                                    /\ d.status = "Position Open"}
  IN IF found = {} THEN NoDoc ELSE Earliest(found)

\* the next Position Open with different ranges
RangeEnd(store, rangeStart, upper_range, lower_range) ==
  LET found == {d \in Docs(store) : /\ d.timestamp > rangeStart.timestamp
                                    /\ d.status = "Position Open"
                                    /\ \/ d.upper_range # upper_range
                                       \/ d.lower_range # lower_range}
  IN IF found = {} THEN NoDoc ELSE Earliest(found)

\* rangeEnd ? rangeEnd.timestamp : new Date()
EndTime(rangeEnd, date) ==
  IF rangeEnd = NoDoc THEN date ELSE rangeEnd.timestamp

\* all positions of the range period
RangePositions(store, rangeStart, endTime) ==
  SortAsc({d \in Docs(store) : /\ d.timestamp >= rangeStart.timestamp
                               /\ d.timestamp < endTime})

\* p.status.includes('Out of Range')
IncludesOutOfRange(status) ==
  status \in {"Price Out of Range - UP", "Price Out of Range - DOWN"}

\* rangePositions.some(p => p.status.includes('Out of Range') && p.rebalance_type)
RebalanceOccurred(rangePositions) ==
  \E k \in 1..Len(rangePositions) :
    /\ IncludesOutOfRange(rangePositions[k].status)
    /\ rangePositions[k].rebalance_type # ""

\* rangePositions.find(p => p.rebalance_type)?.rebalance_type, or null
RebalanceType(rangePositions, rebalanceOccurred) ==
  LET typed == {k \in 1..Len(rangePositions) : rangePositions[k].rebalance_type # ""}
  IN IF rebalanceOccurred /\ typed # {}
     THEN rangePositions[CHOOSE k \in typed : \A j \in typed : k <= j].rebalance_type
     ELSE "null"

\* Duration with the end of the period taken from endTime
Duration_FromEndTime(rangeStart, rangeEnd, endTime) ==
  (endTime - rangeStart.timestamp) \div 1000

\* rangeEnd ? (rangeEnd.timestamp - rangeStart.timestamp) / 1000 : null
Duration(rangeStart, rangeEnd, endTime) ==
  IF rangeEnd = NoDoc THEN -1
  ELSE (rangeEnd.timestamp - rangeStart.timestamp) \div 1000

\* the route handler, from the request to res.json
PositionRange(store, clicked, date) ==
  LET activePosition == ActivePosition(store, clicked)
  IN IF activePosition = NoDoc THEN NoActivePosition
     ELSE LET upper_range == activePosition.upper_range
              lower_range == activePosition.lower_range
              rangeStart == RangeStart(store, upper_range, lower_range)
              rangeEnd == RangeEnd(store, rangeStart, upper_range, lower_range)
              endTime == EndTime(rangeEnd, date)
              rangePositions == RangePositions(store, rangeStart, endTime)
              rebalanceOccurred == RebalanceOccurred(rangePositions)
          IN ResponseBody(FALSE, rangeStart.timestamp,
                          IF rangeEnd = NoDoc THEN -1 ELSE rangeEnd.timestamp,
                          upper_range, lower_range,
                          Duration(rangeStart, rangeEnd, endTime),
                          rebalanceOccurred,
                          RebalanceType(rangePositions, rebalanceOccurred),
                          rangePositions)

\* a document is added to the positions collection
PositionStored(status, price) ==
  /\ Len(positions) < MaxRecords
  /\ LET t == (Len(positions) + 1) * CANDLE_INTERVAL
         ranges == NewRanges(price)
         record == [timestamp |-> t, status |-> status,
                    upper_range |-> ranges.upper, lower_range |-> ranges.lower,
                    open |-> price, high |-> price, low |-> price, close |-> price,
                    rebalance_type |->
                      IF IsConfirmed(status) \/ IncludesOutOfRange(status)
                      THEN "Rebalance UP" ELSE "N/A"]
     IN positions' = SavePositionData(positions, record, TRUE)
  /\ UNCHANGED <<monitorVars, traderVars, queryVars, scriptVars>>

\* one request of the route, served at the time date, later than every
\* stored timestamp; response.count and response.repeated are history: the
\* number of documents read, and whether the request before it had the same
\* timestamp and read the same documents
GetPositionRange(clicked, date) ==
  /\ queries < MaxQueries
  /\ \A d \in Docs(positions) : d.timestamp < date
  /\ response' = [clicked |-> clicked, count |-> Len(positions),
                  repeated |-> (response.clicked = clicked
                                /\ response.count = Len(positions)),
                  body |-> PositionRange(positions, clicked, date)]
  /\ queries' = queries + 1
  /\ UNCHANGED <<monitorVars, positions, traderVars, scriptVars, request>>

\* the route handler up to its first await: Position.findOne for the active
\* position is answered from the collection as it is now; without a match the
\* error body is sent
FindActivePosition(clicked) ==
  /\ queries < MaxQueries
  /\ request.pc = "idle"
  /\ LET activePosition == ActivePosition(positions, clicked)
     IN IF activePosition = NoDoc
        THEN /\ response' = [clicked |-> clicked, count |-> Len(positions),
                             repeated |-> FALSE, body |-> NoActivePosition]
             /\ queries' = queries + 1
             /\ request' = [NoRequest EXCEPT !.clicked = clicked,
                                             !.first = Len(positions)]
        ELSE /\ request' = [NoRequest EXCEPT !.pc = "rangeStart",
                                             !.clicked = clicked,
                                             !.first = Len(positions),
                                             !.activePosition = activePosition]
             /\ UNCHANGED <<response, queries>>
  /\ UNCHANGED <<monitorVars, positions, traderVars, scriptVars>>

\* the second await: Position.findOne for rangeStart
FindRangeStart ==
  /\ request.pc = "rangeStart"
  /\ request' = [request EXCEPT
                   !.pc = "rangeEnd",
                   !.rangeStart = RangeStart(positions,
                                             request.activePosition.upper_range,
                                             request.activePosition.lower_range)]
  /\ UNCHANGED <<monitorVars, positions, traderVars, scriptVars, response, queries>>

\* the third await: Position.findOne for rangeEnd, and endTime, which is read
\* from the clock at the time date when there is no rangeEnd
FindRangeEnd(date) ==
  /\ request.pc = "rangeEnd"
  /\ \A d \in Docs(positions) : d.timestamp < date
  /\ LET rangeEnd == RangeEnd(positions, request.rangeStart,
                              request.activePosition.upper_range,
                              request.activePosition.lower_range)
     IN request' = [request EXCEPT !.pc = "rangePositions",
                                   !.rangeEnd = rangeEnd,
                                   !.endTime = EndTime(rangeEnd, date),
                                   !.date = date]
  /\ UNCHANGED <<monitorVars, positions, traderVars, scriptVars, response, queries>>

\* the fourth await, Position.find for rangePositions, and res.json
FindRangePositions ==
  /\ request.pc = "rangePositions"
  /\ LET rangePositions == RangePositions(positions, request.rangeStart,
                                          request.endTime)
         rebalanceOccurred == RebalanceOccurred(rangePositions)
     IN response' =
          [clicked |-> request.clicked, count |-> Len(positions),
           repeated |-> FALSE,
           body |-> ResponseBody(FALSE, request.rangeStart.timestamp,
                                 IF request.rangeEnd = NoDoc THEN -1
                                 ELSE request.rangeEnd.timestamp,
                                 request.activePosition.upper_range,
                                 request.activePosition.lower_range,
                                 Duration(request.rangeStart, request.rangeEnd,
                                          request.endTime),
                                 rebalanceOccurred,
                                 RebalanceType(rangePositions, rebalanceOccurred),
                                 rangePositions)]
  /\ queries' = queries + 1
  /\ request' = [request EXCEPT !.pc = "idle"]
  /\ UNCHANGED <<monitorVars, positions, traderVars, scriptVars>>

\* ------------------------------------------------------------------------
\* The maintenance scripts (migrate-csv-to-mongodb.js, cleanup-duplicates.js)
\* ------------------------------------------------------------------------

\* number of runs of the migration script
MaxRuns == 2

\* number of runs of the cleanup script
MaxCleanups == 2

\* number of lines of a CSV file
MaxRows == 2

\* the Position schema the script imports: "ohlc" is models/Position.js,
\* "price" the schema the CSV columns were written for
Schemas == {"ohlc", "price"}

\* the paths a schema requires
RequiredPaths(schema) ==
  IF schema = "ohlc"
  THEN {"timestamp", "status", "upper_range", "lower_range",
        "open", "high", "low", "close"}
  ELSE {"timestamp", "status", "price", "upper_range", "lower_range"}

\* the enum of the status path
StatusEnum(schema) ==
  IF schema = "ohlc" THEN Statuses
  ELSE {"Position Open", "Price Out of Range - UP", "Price Out of Range - DOWN"}

\* a line of candles.csv, parsed: the line k is of the bucket k
CandleRow(k, price) ==
  [timestamp |-> k * CANDLE_INTERVAL, open |-> price, high |-> price,
   low |-> price, close |-> price, liquidity |-> k]

\* a line of positions.csv, parsed
PositionRow(k, status) ==
  [timestamp |-> k * CANDLE_INTERVAL, status |-> status, price |-> 3100,
   upper_range |-> NewRanges(3100).upper, lower_range |-> NewRanges(3100).lower,
   rebalance_type |-> "N/A"]

\* the CSV files the scripts can find
CandleFiles ==
  UNION {{[k \in 1..n |-> CandleRow(k, f[k])] : f \in [1..n -> QueryPrices]} :
         n \in 1..MaxRows}

PositionFiles ==
  UNION {{[k \in 1..n |-> PositionRow(k, f[k])] :
          f \in [1..n -> {"Position Open", "Price Out of Range - UP"}]} :
         n \in 1..MaxRows}

RECURSIVE InsertManyCandles(_, _)
\* Candle.insertMany(batch, { ordered: false }): every document is tried, the
\* unique index on timestamp rejects those whose timestamp is stored
InsertManyCandles(store, batch) ==
  IF batch = <<>> THEN store
  ELSE InsertManyCandles(SaveCandleToMongoDB(store, Head(batch)), Tail(batch))

\* the document passes the validation of the schema
ValidPosition(doc, schema) ==
  /\ RequiredPaths(schema) \subseteq DOMAIN doc
  /\ doc.status \in StatusEnum(schema)

\* the greatest _id of the collection, 0 when it is empty
MaxId(store) ==
  IF store = <<>> THEN 0
  ELSE CHOOSE m \in {store[k]._id : k \in 1..Len(store)} :
         \A k \in 1..Len(store) : store[k]._id <= m

RECURSIVE InsertManyPositions(_, _, _)
\* Position.insertMany(batch, { ordered: false }): the documents that pass
\* validation are inserted; the index on timestamp is not unique
InsertManyPositions(store, batch, schema) ==
  IF batch = <<>> THEN store
  ELSE LET doc == Head(batch)
           next == IF ValidPosition(doc, schema)
                   THEN Append(store, [doc EXCEPT !._id = MaxId(store) + 1])
                   ELSE store
       IN InsertManyPositions(next, Tail(batch), schema)

\* the document built from a line of positions.csv, its _id not yet assigned
PositionBatch(rows) ==
  [k \in 1..Len(rows) |->
     [_id |-> 0, timestamp |-> rows[k].timestamp, status |-> rows[k].status,
      price |-> rows[k].price, upper_range |-> rows[k].upper_range,
      lower_range |-> rows[k].lower_range,
      rebalance_type |-> rows[k].rebalance_type]]

\* main of the migration script: migrateCandlesCSV, then migratePositionsCSV
\* (a file is one batch)
RunMigration ==
  /\ migration.runs < MaxRuns
  /\ candlesCollection' = InsertManyCandles(candlesCollection, migration.candles)
  /\ positions' = InsertManyPositions(positions, PositionBatch(migration.positions),
                                      migration.schema)
  /\ migration' = [migration EXCEPT !.runs = @ + 1]
  /\ UNCHANGED <<now, ticks, currentCandle, candles, currentRanges,
                 lastPositionStatus, emitted, inflight>>
  /\ UNCHANGED <<traderVars, queryVars, cleanup>>

\* the orders in which documents of one timestamp come out of
\* .sort({ timestamp: 1 }), which does not order them: by _id upwards (a
\* scan of the collection) or downwards (the timestamp index read backwards)
TieOrders == {"asc", "desc"}

\* d comes before e in the sort result
Before(d, e, ties) ==
  \/ d.timestamp < e.timestamp
  \/ /\ d.timestamp = e.timestamp
     /\ IF ties = "asc" THEN d._id <= e._id ELSE d._id >= e._id

RECURSIVE SortByTimestamp(_, _)
\* Model.find({}).sort({ timestamp: 1 })
SortByTimestamp(docs, ties) ==
  IF docs = {} THEN <<>>
  ELSE LET d == CHOOSE x \in docs : \A e \in docs : Before(x, e, ties)
       IN <<d>> \o SortByTimestamp(docs \ {d}, ties)

\* idsToDelete: of every timestamp, all ids but the first of allDocs
IdsToDelete(allDocs) ==
  {allDocs[k]._id : k \in {j \in 1..Len(allDocs) :
                             \E i \in 1..(j - 1) :
                               allDocs[i].timestamp = allDocs[j].timestamp}}

\* Model.deleteMany({ _id: { $in: idsToDelete } })
DeleteMany(store, ids) == SelectSeq(store, LAMBDA d : d._id \notin ids)

\* removeDuplicates(Position): the collection afterwards and the counts
\* returned
RemoveDuplicates(ties) ==
  /\ cleanup.runs < MaxCleanups
  /\ LET allDocs == SortByTimestamp(Docs(positions), ties)
         idsToDelete == IdsToDelete(allDocs)
         output == DeleteMany(positions, idsToDelete)
     IN /\ positions' = output
        /\ cleanup' = [runs |-> cleanup.runs + 1, input |-> positions,
                       output |-> output, before |-> Len(allDocs),
                       duplicates |-> Cardinality(idsToDelete),
                       after |-> Len(output)]
  /\ UNCHANGED <<monitorVars, traderVars, queryVars, migration>>

\* ------------------------------------------------------------------------
\* Specifications
\* ------------------------------------------------------------------------

\* the monitor alone, the executor not started; every insert goes through
Init ==
  /\ MonitorInit
  /\ positions = <<>>
  /\ dryRun = TRUE
  /\ executor = Polling
  /\ wallet = NoBalances
  /\ tradingState = [position |-> "USDC", lastSignalId |-> 0, tradesExecuted |-> 0]
  /\ polls = <<>>
  /\ pollCount = 0
  /\ overlapped = FALSE
  /\ history = NoHistory
  /\ response = NoResponse
  /\ queries = 0
  /\ request = NoRequest
  /\ migration = NoMigration
  /\ cleanup = NoCleanup

Next ==
  \/ \E price \in Prices, gap \in Gaps : MainLoop(price, gap)
  \/ \E i \in 1..MaxInFlight : ResumeUpdateCandle(i, TRUE)

Spec == Init /\ [][Next]_vars

\* the monitor with inserts that go through or throw
StoreNext ==
  \/ \E price \in Prices, gap \in Gaps : MainLoop(price, gap)
  \/ \E i \in 1..MaxInFlight, saved \in BOOLEAN : ResumeUpdateCandle(i, saved)

StoreSpec == Init /\ [][StoreNext]_vars

\* Date.now() is the system clock, which can be set back between two ticks:
\* the time of a tick is then earlier than that of the tick before it
ClockSteps == Gaps \cup {0 - CANDLE_INTERVAL}

\* the monitor with a clock that can be set back
ClockNext ==
  \/ \E price \in Prices, gap \in ClockSteps :
       now + gap > 0 /\ MainLoop(price, gap)
  \/ \E i \in 1..MaxInFlight : ResumeUpdateCandle(i, TRUE)

ClockSpec == Init /\ [][ClockNext]_vars

\* the monitor fed with finite and non-finite prices
FeedNext ==
  \/ \E price \in Prices \cup {Infinity}, gap \in Gaps : MainLoop(price, gap)
  \/ \E i \in 1..MaxInFlight : ResumeUpdateCandle(i, TRUE)

FeedSpec == Init /\ [][FeedNext]_vars

\* the range query over a growing positions collection
QueryNext ==
  \/ \E status \in QueryStatuses, price \in QueryPrices : PositionStored(status, price)
  \/ \E clicked \in Clicks, gap \in Gaps :
       GetPositionRange(clicked, Len(positions) * CANDLE_INTERVAL + gap)

QuerySpec == Init /\ [][QueryNext]_vars

\* the range query served await by await while documents are added
AwaitNext ==
  \/ \E status \in QueryStatuses, price \in QueryPrices : PositionStored(status, price)
  \/ \E clicked \in Clicks : FindActivePosition(clicked)
  \/ FindRangeStart
  \/ \E gap \in Gaps : FindRangeEnd(Len(positions) * CANDLE_INTERVAL + gap)
  \/ FindRangePositions

AwaitSpec == Init /\ [][AwaitNext]_vars

\* the maintenance scripts run by the operator, in any order, over the CSV
\* files found and with either Position schema
ScriptInit ==
  /\ MonitorInit
  /\ positions = <<>>
  /\ dryRun = TRUE
  /\ executor = Polling
  /\ wallet = NoBalances
  /\ tradingState = [position |-> "USDC", lastSignalId |-> 0, tradesExecuted |-> 0]
  /\ polls = <<>>
  /\ pollCount = 0
  /\ overlapped = FALSE
  /\ history = NoHistory
  /\ response = NoResponse
  /\ queries = 0
  /\ request = NoRequest
  /\ migration \in [candles : CandleFiles, positions : PositionFiles,
                    schema : Schemas, runs : {0}]
  /\ cleanup = NoCleanup

ScriptNext ==
  \/ RunMigration
  \/ \E ties \in TieOrders : RemoveDuplicates(ties)

ScriptSpec == ScriptInit /\ [][ScriptNext]_vars

\* the executor, with the monitor seen through the records it stores
TradeInit == MonitorInit /\ TraderInit

TradeNext ==
  \/ \E status \in Statuses : SignalStored(status)
  \/ TradeMainLoop
  \/ \E i \in 1..MaxPolls : ProcessSignal(i)
  \/ \E i \in 1..MaxPolls, ok \in BOOLEAN : GetBalances(i, ok)
  \/ \E i \in 1..MaxPolls, priceKnown \in BOOLEAN : DecideTrade(i, priceKnown)
  \/ \E i \in 1..MaxPolls, success \in BOOLEAN : FinishTrade(i, success)

TradeSpec == TradeInit /\ [][TradeNext]_vars

\* the executor from its start to its exit; the balances are read only with
\* a wallet, that is with a private key
SessionInit ==
  /\ MonitorInit
  /\ positions = <<>>
  /\ dryRun \in BOOLEAN
  /\ executor \in [pc : {"starting"}, privateKey : BOOLEAN, routerAddress : BOOLEAN]
  /\ wallet \in Wallets
  /\ tradingState = [position |-> "USDC", lastSignalId |-> 0, tradesExecuted |-> 0]
  /\ polls = <<>>
  /\ pollCount = 0
  /\ overlapped = FALSE
  /\ history = NoHistory
  /\ response = NoResponse
  /\ queries = 0
  /\ request = NoRequest
  /\ migration = NoMigration
  /\ cleanup = NoCleanup

SessionNext ==
  \/ StartTrading
  \/ Sigint
  \/ Exit
  \/ \E status \in Statuses : SignalStored(status)
  \/ TradeMainLoop
  \/ \E i \in 1..MaxPolls : ProcessSignal(i)
  \/ \E i \in 1..MaxPolls, ok \in BOOLEAN :
       (ok => executor.privateKey) /\ GetBalances(i, ok)
  \/ \E i \in 1..MaxPolls, priceKnown \in BOOLEAN : DecideTrade(i, priceKnown)
  \/ \E i \in 1..MaxPolls, success \in BOOLEAN : FinishTrade(i, success)

SessionSpec == SessionInit /\ [][SessionNext]_vars

\* the executor with its scheduling: the timer keeps firing mainLoop and
\* every awaited call of a running invocation returns
TradeFairSpec ==
  /\ TradeInit
  /\ [][TradeNext]_vars
  /\ WF_vars(TradeMainLoop)
  /\ \A i \in 1..MaxPolls :
       /\ WF_vars(ProcessSignal(i))
       /\ WF_vars(\E ok \in BOOLEAN : GetBalances(i, ok))
       /\ WF_vars(\E priceKnown \in BOOLEAN : DecideTrade(i, priceKnown))
       /\ WF_vars(\E success \in BOOLEAN : FinishTrade(i, success))

\* ------------------------------------------------------------------------
\* Properties of the breakout state machine
\* ------------------------------------------------------------------------

Last(s) == s[Len(s)]

\* a step of mainLoop that closes the open candle and evaluates price
CloseStep(price, gap) ==
  /\ MainLoop(price, gap)
  /\ currentCandle # NoCandle
  /\ currentCandle.timestamp # CandleStart(now + gap)

\* the step hands exactly one record to savePositionData
EmitsOne == Len(emitted') = Len(emitted) + 1

\* the step hands no record to savePositionData
EmitsNone == emitted' = emitted

\* the step resumes the suspended evaluation cont
Resumes(cont) ==
  \E i \in 1..Len(inflight) : inflight[i] = cont /\ inflight' = RemoveAt(inflight, i)

Outside(price, ranges) ==
  \/ price * 1000 > ranges.upper
  \/ price * 1000 < ranges.lower

Elems(s) == {s[k] : k \in 1..Len(s)}

SameRange(record, ranges) ==
  record.upper_range = ranges.upper /\ record.lower_range = ranges.lower

\* the latest closed candle before the one starting at c, -1 when there is none
PrecedingCandle(c) ==
  LET earlier == {x.timestamp : x \in {y \in Elems(candles) : y.timestamp < c}}
  IN IF earlier = {} THEN -1
     ELSE CHOOSE t \in earlier : \A u \in earlier : u <= t

\* C1: a Confirmed record (Open-UP / Open-DOWN) is emitted at a candle close
\* only if the evaluation of the immediately preceding candle close emitted a
\* Pending record (Price-UP / Price-DOWN) against the same Range, the machine
\* is in a Pending state and the price is still outside that Range.
C1_ConfirmedOnlyAfterPending ==
  [][\A price \in Prices, gap \in Gaps :
       (CloseStep(price, gap) /\ EmitsOne /\ IsConfirmed(Last(emitted').status))
       => /\ IsPending(lastPositionStatus)
          /\ Outside(price, currentRanges)
          /\ \E r \in Elems(emitted) :
               /\ IsPending(r.status)
               /\ r.candle = PrecedingCandle(currentCandle.timestamp)
               /\ SameRange(r, currentRanges)]_vars

\* C2: a candle close in a Pending state with the price p outside the Range
\* replaces the Range by {p * 1.001, p * 0.999} and emits exactly one Confirmed
\* record, Open-UP with Rebalance UP when p is above the old upper bound and
\* Open-DOWN with Rebalance DOWN otherwise; when that evaluation resumes the
\* state becomes Monitoring and the Range is not replaced again; the Range
\* changes in no step other than one that emits a Confirmed record.
C2_ConfirmedBreakoutResetsRange ==
  [][/\ \A price \in Prices, gap \in Gaps :
          (CloseStep(price, gap) /\ IsPending(lastPositionStatus)
                                 /\ Outside(price, currentRanges))
          => /\ currentRanges' = [upper |-> price * 1001, lower |-> price * 999]
             /\ EmitsOne
             /\ Last(emitted').status =
                  (IF price * 1000 > currentRanges.upper THEN "Open-UP" ELSE "Open-DOWN")
             /\ Last(emitted').rebalance_type =
                  (IF price * 1000 > currentRanges.upper
                   THEN "Rebalance UP" ELSE "Rebalance DOWN")
     /\ \A cont \in Elems(inflight) :
          (Resumes(cont) /\ IsConfirmed(cont.record.status))
          => lastPositionStatus' = "Monitoring" /\ currentRanges' = currentRanges
     /\ (currentRanges' # currentRanges /\ currentRanges # NoRanges)
          => EmitsOne /\ IsConfirmed(Last(emitted').status)]_vars

\* a confirmed breakout has been evaluated to its end
C2_Witness ==
  /\ inflight = <<>>
  /\ Len(emitted) >= 2
  /\ IsPending(emitted[Len(emitted) - 1].status)
  /\ Last(emitted).status = "Open-UP"
  /\ lastPositionStatus = "Monitoring"
  /\ currentRanges = [upper |-> 3105 * 1001, lower |-> 3105 * 999]
  /\ emitted[Len(emitted) - 1].upper_range = 3100 * 1001

\* C3: a candle close in a Pending state with the price back inside the Range
\* emits a Monitoring record carrying the unchanged Range, leaves the Range
\* unchanged and returns to state Monitoring.
C3_NoiseRejectionEmitsMonitoring ==
  [][\A price \in Prices, gap \in Gaps :
       (CloseStep(price, gap) /\ IsPending(lastPositionStatus)
                              /\ ~Outside(price, currentRanges))
       => /\ EmitsOne
          /\ Last(emitted').status = "Monitoring"
          /\ SameRange(Last(emitted'), currentRanges)
          /\ currentRanges' = currentRanges
          /\ lastPositionStatus' = "Monitoring"]_vars

C5_RangeChangesOnlyOnConfirmed ==
  /\ [](\A k \in 2..Len(emitted) :
          (\/ emitted[k].upper_range # emitted[k - 1].upper_range
           \/ emitted[k].lower_range # emitted[k - 1].lower_range)
          => IsConfirmed(emitted[k].status))
  /\ [][(currentRanges' # currentRanges /\ currentRanges # NoRanges)
          => EmitsOne /\ IsConfirmed(Last(emitted').status)]_vars

\* a Pending record on the old Range, the Confirmed record on the new one
\* and a later record still on the new one
C5_Witness ==
  \E k \in 1..(Len(emitted) - 2) :
    /\ IsPending(emitted[k].status)
    /\ IsConfirmed(emitted[k + 1].status)
    /\ emitted[k + 1].upper_range # emitted[k].upper_range
    /\ ~IsConfirmed(emitted[k + 2].status)
    /\ emitted[k + 2].upper_range = emitted[k + 1].upper_range
    /\ emitted[k + 2].lower_range = emitted[k + 1].lower_range

\* C6: every candle close emits exactly one Signal Record, and no two records
\* are emitted for the same closed candle.
C6_OneRecordPerCandleClose ==
  /\ [][\A price \in Prices, gap \in Gaps : CloseStep(price, gap) => EmitsOne]_vars
  /\ [](\A j, k \in 1..Len(emitted) :
          emitted[j].candle = emitted[k].candle => j = k)

\* C7: a candle close in state Monitoring emits a Monitoring record when the
\* price is inside the Range, Price-UP when it is above and Price-DOWN when
\* it is below, each carrying the Range, which stays as it is; when the
\* evaluation resumes the state becomes the Pending state of the record, or
\* is left as it is after a Monitoring record.
C7_MonitoringTransitions ==
  [][/\ \A price \in Prices, gap \in Gaps :
          (CloseStep(price, gap) /\ lastPositionStatus = "Monitoring")
          => /\ EmitsOne
             /\ Last(emitted').status =
                  (IF price * 1000 > currentRanges.upper THEN "Price-UP"
                   ELSE IF price * 1000 < currentRanges.lower THEN "Price-DOWN"
                   ELSE "Monitoring")
             /\ SameRange(Last(emitted'), currentRanges)
             /\ currentRanges' = currentRanges
     /\ \A cont \in Elems(inflight) :
          (Resumes(cont) /\ ~IsConfirmed(cont.record.status))
          => /\ currentRanges' = currentRanges
             /\ lastPositionStatus' =
                  (IF cont.record.status = "Monitoring"
                   THEN lastPositionStatus ELSE cont.record.status)]_vars

\* the machine went from Monitoring to Monitoring and then to Price-DOWN
C7_Witness ==
  /\ inflight = <<>>
  /\ Len(emitted) = 2
  /\ emitted[1].status = "Monitoring"
  /\ emitted[2].status = "Price-DOWN"
  /\ lastPositionStatus = "Price-DOWN"
  /\ currentRanges = [upper |-> emitted[1].upper_range,
                      lower |-> emitted[1].lower_range]

\* C8 as stated: the first Signal Record ever emitted is a Monitoring record
\* carrying the Range seeded from the first candle's open price.
C8_FirstRecordIsMonitoring ==
  Len(emitted) >= 1
  => /\ emitted[1].status = "Monitoring"
     /\ emitted[1].upper_range = candles[1].open * 1001
     /\ emitted[1].lower_range = candles[1].open * 999

\* C8 amended: while the first candle is open the Range is the one seeded
\* from its open price, the state is Monitoring and no record has been
\* emitted; the first record is emitted at the first candle close, carries
\* that Range, and is Monitoring, Price-UP or Price-DOWN as the price of that
\* close is inside, above or below the Range.
C8_FirstRecordAtFirstClose ==
  /\ []((currentCandle # NoCandle /\ candles = <<>>)
        => /\ currentRanges = [upper |-> currentCandle.open * 1001,
                               lower |-> currentCandle.open * 999]
           /\ lastPositionStatus = "Monitoring"
           /\ emitted = <<>>)
  /\ [][\A price \in Prices, gap \in Gaps :
          (CloseStep(price, gap) /\ candles = <<>>)
          => /\ Len(emitted') = 1
             /\ emitted'[1].upper_range = currentCandle.open * 1001
             /\ emitted'[1].lower_range = currentCandle.open * 999
             /\ emitted'[1].status =
                  (IF price * 1000 > currentCandle.open * 1001 THEN "Price-UP"
                   ELSE IF price * 1000 < currentCandle.open * 999 THEN "Price-DOWN"
                   ELSE "Monitoring")]_vars

\* the first candle had later ticks and the first record is not Monitoring
C8_Witness ==
  /\ Len(emitted) >= 1
  /\ emitted[1].status = "Price-UP"
  /\ candles[1].close # candles[1].open
  /\ emitted[1].upper_range = candles[1].open * 1001

\* ------------------------------------------------------------------------
\* Properties of the trade executor
\* ------------------------------------------------------------------------

\* C9: processSignal called twice in succession with the same Confirmed
\* record starts at most one swap and counts at most one trade; a successful
\* trade sets lastSignalId to the record's _id and adds one to tradesExecuted,
\* and a call with the record whose _id is lastSignalId changes nothing.
C9_ReplayedSignalIsNoOp ==
  /\ [](~overlapped => \A id \in 1..MaxSignals :
                         history[id].swaps <= 1 /\ history[id].trades <= 1)
  /\ [][\A i \in 1..MaxPolls :
          /\ FinishTrade(i, TRUE)
               => /\ tradingState'.lastSignalId = polls[i].signal._id
                  /\ tradingState'.tradesExecuted = tradingState.tradesExecuted + 1
          /\ (ProcessSignal(i) /\ polls[i].signal._id = tradingState.lastSignalId)
               => /\ tradingState' = tradingState
                  /\ wallet' = wallet
                  /\ polls' = RemoveAt(polls, i)
                  /\ history'[polls[i].signal._id].swaps =
                       history[polls[i].signal._id].swaps
                  /\ history'[polls[i].signal._id].trades =
                       history[polls[i].signal._id].trades]_vars

\* a record was traded on by a first call and passed to processSignal again
C9_Witness ==
  \E id \in 1..MaxSignals :
    /\ ~overlapped
    /\ polls = <<>>
    /\ history[id] = [calls |-> 2, swaps |-> 1, trades |-> 1]
    /\ tradingState.lastSignalId = id
    /\ tradingState.tradesExecuted = 1

\* C10: for every Confirmed record at most one buyWeth/sellWeth call is ever
\* started, however the polls of the executor overlap.
C10_OneSwapPerSignal ==
  \A id \in 1..MaxSignals : history[id].swaps <= 1

\* C11: tradesExecuted never exceeds maxTradesPerHour, and a call of
\* processSignal made while tradesExecuted >= maxTradesPerHour starts no swap
\* and changes nothing of the trading state.
C11_RateLimit ==
  /\ [](tradingState.tradesExecuted <= maxTradesPerHour)
  /\ [][\A i \in 1..MaxPolls :
          (ProcessSignal(i) /\ tradingState.tradesExecuted >= maxTradesPerHour)
          => /\ tradingState' = tradingState
             /\ wallet' = wallet
             /\ polls' = RemoveAt(polls, i)]_vars

\* C12: when buyWeth / sellWeth returns failure for a Confirmed record,
\* position, tradesExecuted and lastSignalId are unchanged, so that the next
\* poll that reads the record attempts the swap again.
C12_FailedSwapKeepsState ==
  [][\A i \in 1..MaxPolls :
       FinishTrade(i, FALSE) => tradingState' = tradingState]_vars

\* C13: a record whose status is Monitoring, Price-UP or Price-DOWN never
\* starts a swap and never changes position, tradesExecuted or lastSignalId,
\* whatever the trading state: processSignal returns at once.
C13_OnlyConfirmedActionable ==
  /\ [](\A id \in 1..Len(positions) :
          ~IsConfirmed(positions[id].status)
          => /\ history[id].swaps = 0
             /\ history[id].trades = 0
             /\ tradingState.lastSignalId # id)
  /\ [](\A i \in 1..Len(polls) :
          ~IsConfirmed(polls[i].signal.status) => polls[i].pc = "processSignal")
  /\ [][\A i \in 1..MaxPolls :
          (ProcessSignal(i) /\ ~IsConfirmed(polls[i].signal.status))
          => /\ tradingState' = tradingState
             /\ wallet' = wallet
             /\ polls' = RemoveAt(polls, i)]_vars

\* after a trade on a Confirmed record, a later Monitoring, Price-UP or
\* Price-DOWN record was passed to processSignal
C13_Witness ==
  /\ Len(positions) = 2
  /\ ~IsConfirmed(positions[2].status)
  /\ history[2].calls >= 1
  /\ history[1].trades = 1
  /\ tradingState.lastSignalId = 1
  /\ polls = <<>>

\* the step of invocation i ends with a call of buyWeth (Acquire)
Acquires(i) ==
  /\ Len(polls') = Len(polls)
  /\ polls'[i].pc = "buyWeth"

\* the step of invocation i ends with a call of sellWeth (Release)
Releases(i) ==
  /\ Len(polls') = Len(polls)
  /\ polls'[i].pc = "sellWeth"

ReturnsWithoutAction(i) ==
  /\ \E priceKnown \in BOOLEAN : ProcessSignal(i) \/ DecideTrade(i, priceKnown)
  /\ polls' = RemoveAt(polls, i)

\* C15: whenever processSignal returns without executing an action (replay
\* guard, non-confirmed status, rate limit reached, already positioned,
\* already defensive), position, tradesExecuted and lastSignalId are unchanged.
C15_NoActionLeavesState ==
  [][\A i \in 1..MaxPolls :
       ReturnsWithoutAction(i) => tradingState' = tradingState]_vars

\* C15 amended: a return at the replay guard, the status test or the rate
\* limit leaves position, tradesExecuted and lastSignalId unchanged, and so
\* does a return at the minimum-balance test or the trade-size floor; a return
\* on already positioned (Open-UP while holding WETH) or already defensive
\* (Open-DOWN while holding USDC or with no WETH) leaves position and
\* tradesExecuted unchanged and sets lastSignalId to the record's _id.
C15_NoActionMarksConsumed ==
  [][\A i \in 1..MaxPolls :
       /\ (/\ ProcessSignal(i)
           /\ \/ polls[i].signal._id = tradingState.lastSignalId
              \/ ~IsConfirmed(polls[i].signal.status)
              \/ tradingState.tradesExecuted >= maxTradesPerHour)
          => (polls' = RemoveAt(polls, i) /\ tradingState' = tradingState)
       /\ \A priceKnown \in BOOLEAN :
            (DecideTrade(i, priceKnown) /\ polls' = RemoveAt(polls, i))
            => LET b == polls[i].balances
                   status == polls[i].signal.status
                   total == b.usdc + (IF priceKnown THEN b.weth ELSE 0)
                   positioned ==
                     /\ total >= 10
                     /\ \/ status = "Open-UP" /\ tradingState.position = "WETH"
                        \/ /\ status = "Open-DOWN"
                           /\ (tradingState.position = "USDC" \/ b.weth = 0)
               IN /\ tradingState'.position = tradingState.position
                  /\ tradingState'.tradesExecuted = tradingState.tradesExecuted
                  /\ tradingState'.lastSignalId =
                       (IF positioned THEN polls[i].signal._id
                        ELSE tradingState.lastSignalId)]_vars

\* an Open-DOWN record was processed while already holding USDC: no swap was
\* started, no trade counted, and the record is marked as the last signal
C15_Witness ==
  \E id \in 1..Len(positions) :
    /\ positions[id].status = "Open-DOWN"
    /\ history[id].calls >= 1
    /\ history[id].swaps = 0
    /\ tradingState.lastSignalId = id
    /\ tradingState.position = "USDC"
    /\ tradingState.tradesExecuted = 0
    /\ polls = <<>>

\* C16: every Confirmed record appended to the stored records is eventually
\* passed to processSignal by some poll, also when further records are
\* appended before the executor's next poll (stated for the records stored
\* while the explored polls of the executor are not used up).
C16_NoRecordSkipped ==
  \A id \in 1..MaxSignals :
    (/\ Len(positions) >= id
     /\ IsConfirmed(positions[id].status)
     /\ pollCount < MaxPollCount)
      ~> (history[id].calls > 0)

\* ------------------------------------------------------------------------
\* Properties of the candle aggregator
\* ------------------------------------------------------------------------

\* C17: every candle is closed (pushed to candles and handed to
\* saveCandleToMongoDB) at most once, and the timestamps (bucket starts) of
\* the closed candles are strictly increasing.
C17_ClosedCandlesIncrease ==
  \A j, k \in 1..Len(candles) :
    j < k => candles[j].timestamp < candles[k].timestamp

\* C18: with bucket start floor(timestamp / interval) * interval, a tick that
\* arrives when no candle is open opens a candle with open = high = low =
\* close = tick price; a tick of another bucket than the open candle's pushes
\* the open candle to the closed ones and its updateCandle call, at once or
\* when its record write has returned, opens the candle of the tick's bucket
\* with open = high = low = close = tick price; a tick of the open candle's
\* bucket only updates high (max), low (min), close and the liquidity
\* snapshot and leaves open and the bucket start unchanged.
C18_AggregatorIngest ==
  [][/\ \A price \in Prices, gap \in Gaps :
          MainLoop(price, gap)
          => LET t == now + gap
                 bucket == (t \div 10000) * 10000
                 fresh == [timestamp |-> bucket, open |-> price, high |-> price,
                           low |-> price, close |-> price, liquidity |-> t]
             IN IF currentCandle = NoCandle
                THEN currentCandle' = fresh /\ candles' = candles
                ELSE IF currentCandle.timestamp # bucket
                THEN /\ candles' = Append(candles, currentCandle)
                     /\ \/ currentCandle' = fresh /\ inflight' = inflight
                        \/ /\ currentCandle' = currentCandle
                           /\ Len(inflight') = Len(inflight) + 1
                           /\ Last(inflight').candleStart = bucket
                           /\ Last(inflight').data.price = price
                           /\ Last(inflight').data.timestamp = t
                ELSE /\ candles' = candles
                     /\ currentCandle'.timestamp = currentCandle.timestamp
                     /\ currentCandle'.open = currentCandle.open
                     /\ currentCandle'.high =
                          (IF price > currentCandle.high THEN price
                           ELSE currentCandle.high)
                     /\ currentCandle'.low =
                          (IF price < currentCandle.low THEN price
                           ELSE currentCandle.low)
                     /\ currentCandle'.close = price
                     /\ currentCandle'.liquidity = t
    /\ \A i \in 1..MaxInFlight :
          ResumeUpdateCandle(i, TRUE)
          => /\ candles' = candles
             /\ currentCandle' =
                  [timestamp |-> inflight[i].candleStart,
                   open |-> inflight[i].data.price,
                   high |-> inflight[i].data.price,
                   low |-> inflight[i].data.price,
                   close |-> inflight[i].data.price,
                   liquidity |-> inflight[i].data.timestamp]]_vars

\* the open candle took a higher and then a lower tick of its own bucket after
\* an earlier candle was closed
C18_Witness ==
  /\ Len(candles) >= 1
  /\ currentCandle # NoCandle
  /\ currentCandle.timestamp > Last(candles).timestamp
  /\ currentCandle.low < currentCandle.open
  /\ currentCandle.open < currentCandle.high
  /\ currentCandle.close = currentCandle.low
  /\ currentCandle.liquidity = now
  /\ inflight = <<>>

\* C19: a tick with a non-finite price is rejected: whether it falls into the
\* open candle's bucket or closes the candle, the open candle, the closed
\* candles, the ranges and the status are unchanged after it and no record is
\* handed to savePositionData.
C19_NonFiniteTickRejected ==
  [][\A gap \in Gaps :
       (MainLoop(Infinity, gap) /\ currentCandle # NoCandle)
       => /\ currentCandle' = currentCandle
          /\ candles' = candles
          /\ currentRanges' = currentRanges
          /\ lastPositionStatus' = lastPositionStatus
          /\ emitted' = emitted
          /\ inflight' = inflight]_vars

\* ------------------------------------------------------------------------
\* Properties of the range query
\* ------------------------------------------------------------------------

ReadStore == SubSeq(positions, 1, response.count)

\* every document was written by the state machine of the schema in use
ProducedByStateMachine(store) ==
  \A k \in 1..Len(store) : store[k].status \in Statuses

\* C21: over documents written by the state machine, a request with a time
\* at or after the first document gets the segment active at that time: its
\* start is at or before the time, its end is null or after it, and its
\* ranges are those of the latest document at or before the time.
C21_QueryReturnsActiveSegment ==
  (/\ queries > 0
   /\ ReadStore # <<>>
   /\ ProducedByStateMachine(ReadStore)
   /\ ReadStore[1].timestamp <= response.clicked)
  => LET before == {d \in Docs(ReadStore) : d.timestamp <= response.clicked}
         latest == CHOOSE d \in before : \A e \in before : e.timestamp <= d.timestamp
     IN /\ ~response.body.error
        /\ response.body.rangeStart <= response.clicked
        /\ (response.body.rangeEnd = -1 \/ response.body.rangeEnd > response.clicked)
        /\ response.body.upperRange = latest.upper_range
        /\ response.body.lowerRange = latest.lower_range

\* the document's timestamp lies in the period of the response body
InSegment(d, body) ==
  /\ d.timestamp >= body.rangeStart
  /\ (body.rangeEnd = -1 \/ d.timestamp < body.rangeEnd)

\* C22: the period of a returned segment, used to filter the stored documents
\* again, gives exactly the documents of the response, all of which carry the
\* segment's ranges; every stored document lies in the segment returned for
\* its own timestamp, and the segments returned for the stored timestamps are
\* equal or do not overlap.
C22_SegmentsRoundTrip ==
  (/\ queries > 0
   /\ \E d \in Docs(ReadStore) : d.timestamp = response.clicked)
  => LET body == response.body
         filtered == {d \in Docs(ReadStore) : InSegment(d, body)}
         date == Len(positions) * CANDLE_INTERVAL + FETCH_INTERVAL
     IN /\ ~body.error
        /\ Docs(body.positions) = filtered
        /\ \A d \in filtered : /\ d.upper_range = body.upperRange
                               /\ d.lower_range = body.lowerRange
        /\ \E d \in filtered : d.timestamp = response.clicked
        /\ \A e \in Docs(ReadStore) :
             LET other == PositionRange(ReadStore, e.timestamp, date)
             IN /\ ~other.error
                /\ \/ /\ other.rangeStart = body.rangeStart
                      /\ other.rangeEnd = body.rangeEnd
                   \/ \A d \in filtered : ~InSegment(d, other)

\* C23: every closed candle is evaluated exactly once and no evaluation is
\* interleaved with another: while an updateCandle call is suspended in its
\* record write, no other updateCandle call runs, so that none reads or
\* changes currentCandle, currentRanges or lastPositionStatus, and no candle
\* is closed and evaluated a second time.
C23_NoInterleavedEvaluations ==
  /\ [][\A price \in Prices, gap \in Gaps :
          MainLoop(price, gap) => inflight = <<>>]_vars
  /\ [](\A j, k \in 1..Len(candles) :
          j # k => candles[j].timestamp # candles[k].timestamp)

\* C24: when the write of a record throws in savePositionData, the evaluation
\* counts as failed: lastPositionStatus after it is what it was before, and
\* the ranges are not those of the record that was not written.
C24_FailedSaveKeepsState ==
  [][\A i \in 1..MaxInFlight :
       ResumeUpdateCandle(i, FALSE)
       => /\ lastPositionStatus' = lastPositionStatus
          /\ inflight[i].kind = "rebalance"
               => ~SameRange(inflight[i].record, currentRanges')]_vars

\* C25: the status of every record that is not Open-UP / Open-DOWN agrees
\* with the close and the ranges stored in the same record: Monitoring iff
\* lower_range <= close <= upper_range, Price-UP iff close > upper_range,
\* Price-DOWN iff close < lower_range.
C25_StatusAgreesWithClose ==
  \A k \in 1..Len(emitted) :
    LET r == emitted[k]
    IN ~IsConfirmed(r.status)
       => /\ r.status = "Monitoring"
               <=> (r.lower_range <= r.close * 1000 /\ r.close * 1000 <= r.upper_range)
          /\ r.status = "Price-UP" <=> r.close * 1000 > r.upper_range
          /\ r.status = "Price-DOWN" <=> r.close * 1000 < r.lower_range

\* C26: on every successful swap, and only then, position becomes the asset
\* acquired (WETH after buyWeth, USDC after sellWeth), tradesExecuted grows
\* by exactly one and lastSignalId becomes the _id of the record acted on.
C26_StateAdvancesOnlyOnSuccess ==
  [][/\ \A i \in 1..MaxPolls :
          FinishTrade(i, TRUE)
          => /\ tradingState'.position =
                  (IF polls[i].pc = "buyWeth" THEN "WETH" ELSE "USDC")
             /\ tradingState'.tradesExecuted = tradingState.tradesExecuted + 1
             /\ tradingState'.lastSignalId = polls[i].signal._id
     /\ tradingState' # tradingState
          => \E i \in 1..MaxPolls : FinishTrade(i, TRUE)]_vars

\* C27: a tick whose bucket precedes the open candle's bucket start is
\* rejected: the open candle, the closed candles, the ranges and the status
\* are unchanged and no record is handed to savePositionData.
C27_OutOfOrderTickRejected ==
  [][\A price \in Prices, gap \in ClockSteps :
       (/\ MainLoop(price, gap)
        /\ currentCandle # NoCandle
        /\ CandleStart(now + gap) < currentCandle.timestamp)
       => /\ currentCandle' = currentCandle
          /\ candles' = candles
          /\ currentRanges' = currentRanges
          /\ lastPositionStatus' = lastPositionStatus
          /\ emitted' = emitted
          /\ inflight' = inflight]_vars

WellFormed(candle) ==
  /\ candle.low <= candle.open /\ candle.open <= candle.high
  /\ candle.low <= candle.close /\ candle.close <= candle.high

\* C28: every candle, the open one and each closed one, has
\* low <= open <= high and low <= close <= high.
C28_CandlesWellFormed ==
  /\ currentCandle # NoCandle => WellFormed(currentCandle)
  /\ \A k \in 1..Len(candles) : WellFormed(candles[k])

\* a candle that fell below its open was closed and the open candle has risen
\* above its open
C28_Witness ==
  /\ currentCandle # NoCandle
  /\ currentCandle.low = currentCandle.open
  /\ currentCandle.open < currentCandle.close
  /\ currentCandle.close = currentCandle.high
  /\ \E k \in 1..Len(candles) :
       /\ candles[k].low = candles[k].close
       /\ candles[k].close < candles[k].open
       /\ candles[k].open = candles[k].high

\* the document carries the ranges of the response body
HasBodyRanges(d, body) ==
  d.upper_range = body.upperRange /\ d.lower_range = body.lowerRange

\* the first position of the contiguous run of documents around position k
\* that carry the ranges of the response body
RunFirst(store, k, body) ==
  CHOOSE j \in 1..k :
    /\ \A m \in j..k : HasBodyRanges(store[m], body)
    /\ j = 1 \/ ~HasBodyRanges(store[j - 1], body)

\* the timestamp of the first document after position k that carries other
\* ranges, -1 (null) when there is none
NextRunTime(store, k, body) ==
  LET later == {j \in (k + 1)..Len(store) : ~HasBodyRanges(store[j], body)}
  IN IF later = {} THEN -1
     ELSE store[CHOOSE j \in later : \A m \in later : j <= m].timestamp

\* C29: a returned segment starts at the first document of the contiguous run
\* of documents that carry its ranges and ends at the first document of the
\* next run, or has a null end when no later document carries other ranges;
\* the run is the one of the latest document at or before the requested time
\* that carries the segment's ranges, so a recurring range gives two segments.
C29_SegmentIsContiguousRun ==
  (queries > 0 /\ ~response.body.error)
  => LET body == response.body
         at == {k \in 1..Len(ReadStore) :
                  /\ ReadStore[k].timestamp <= response.clicked
                  /\ HasBodyRanges(ReadStore[k], body)}
         k == CHOOSE j \in at : \A m \in at : m <= j
     IN /\ at # {}
        /\ body.rangeStart = ReadStore[RunFirst(ReadStore, k, body)].timestamp
        /\ body.rangeEnd = NextRunTime(ReadStore, k, body)

\* the positions, after the first, of the confirmed records of a segment
ConfirmedAfterFirst(docs) ==
  {k \in 2..Len(docs) : IsConfirmed(docs[k].status)}

\* C30: rebalanceOccurred of a returned segment is true exactly when a record
\* of the segment other than its first has a confirmed status (Open-UP or
\* Open-DOWN), and rebalanceType is then the rebalance_type of that record;
\* otherwise rebalanceOccurred is false and rebalanceType is null.
C30_ResetFlagFromConfirmed ==
  (queries > 0 /\ ~response.body.error)
  => LET body == response.body
         confirmed == ConfirmedAfterFirst(body.positions)
     IN /\ body.rebalanceOccurred = (confirmed # {})
        /\ IF confirmed # {}
           THEN \E k \in confirmed :
                  body.rebalanceType = body.positions[k].rebalance_type
           ELSE body.rebalanceType = "null"

C33_StoredCandlesUnique ==
  /\ [](\A j, k \in 1..Len(candlesCollection) :
          candlesCollection[j].timestamp = candlesCollection[k].timestamp => j = k)
  /\ [][\A price \in Prices, gap \in Gaps :
          (/\ CloseStep(price, gap)
           /\ \E d \in Elems(candlesCollection) : d.timestamp = currentCandle.timestamp)
          => /\ candlesCollection' = candlesCollection
             /\ candles' = Append(candles, currentCandle)
             /\ ticks' = ticks + 1
             /\ \/ currentCandle' = NewCandle(CandleStart(now + gap),
                                              [timestamp |-> now + gap,
                                               price |-> price,
                                               liquidity |-> now + gap])
                \/ Len(inflight') = Len(inflight) + 1]_vars

\* a candle was closed twice and is stored once
C33_Witness ==
  /\ Len(candles) = 3
  /\ candles[1].timestamp = candles[2].timestamp
  /\ Len(candlesCollection) = 2
  /\ candlesCollection[1] = CandleDoc(candles[1])

\* C34: with config.dryRun set, executeSwap sends no approval and no router
\* call and returns success whatever the router and the chain would do, and
\* no step of the executor changes the wallet's balances.
C34_DryRunSendsNothing ==
  [][dryRun
       => /\ \A router, txOk \in BOOLEAN :
               ExecuteSwap(dryRun, router, txOk) = [success |-> TRUE, sent |-> FALSE]
          /\ wallet' = wallet]_vars

\* a dry run flipped the position to WETH and counted a trade while the
\* wallet still holds no WETH
C34_Witness ==
  /\ dryRun
  /\ tradingState.tradesExecuted >= 1
  /\ tradingState.position = "WETH"
  /\ wallet.weth = 0

\* C35: when PRIVATE_KEY or ROUTER_ADDRESS is missing, the executor stops at
\* startup: it never polls and no mainLoop invocation is started.
C35_MissingConfigStopsStartup ==
  (~executor.privateKey \/ ~executor.routerAddress)
  => /\ executor.pc \in {"starting", "exited"}
     /\ pollCount = 0
     /\ polls = <<>>

\* C36: the process exits only when no mainLoop invocation is in flight; in
\* particular it never exits while buyWeth or sellWeth has been called and
\* tradingState has not yet been updated.
C36_ExitDrainsCycle ==
  [][(executor.pc # "exited" /\ executor'.pc = "exited") => polls = <<>>]_vars

Timestamps(store) == {store[k].timestamp : k \in 1..Len(store)}

\* C37: after removeDuplicates no two documents share a timestamp, every
\* timestamp of the collection before the run is still there, the document
\* kept for a timestamp is the oldest one (the least _id) that had it, the
\* number of deleted documents is the total minus the number of distinct
\* timestamps, and a second run deletes nothing.
C37_CleanupKeepsOldest ==
  cleanup.runs > 0
  => /\ \A j, k \in 1..Len(cleanup.output) :
          cleanup.output[j].timestamp = cleanup.output[k].timestamp => j = k
     /\ Timestamps(cleanup.output) = Timestamps(cleanup.input)
     /\ \A d \in Docs(cleanup.output) :
          /\ d \in Docs(cleanup.input)
          /\ \A e \in Docs(cleanup.input) :
               e.timestamp = d.timestamp => d._id <= e._id
     /\ cleanup.duplicates =
          Len(cleanup.input) - Cardinality(Timestamps(cleanup.input))
     /\ cleanup.before - cleanup.after = cleanup.duplicates
     /\ \A ties \in TieOrders :
          IdsToDelete(SortByTimestamp(Docs(cleanup.output), ties)) = {}

\* C38: a run of the migration after the first inserts nothing that is stored
\* already, and neither collection ever holds two documents for one line of
\* a CSV file.
C38_MigrationRerunSafe ==
  /\ [](\A k \in 1..Len(migration.candles) :
          Cardinality({j \in 1..Len(candlesCollection) :
             candlesCollection[j].timestamp = migration.candles[k].timestamp}) <= 1)
  /\ [](\A k \in 1..Len(migration.positions) :
          Cardinality({j \in 1..Len(positions) :
             positions[j].timestamp = migration.positions[k].timestamp}) <= 1)
  /\ [][(RunMigration /\ migration.runs > 0 /\ cleanup.runs = 0)
          => positions' = positions /\ candlesCollection' = candlesCollection]_vars

\* C39: the executed actions alternate. tradingState.position is WETH exactly
\* after an executed buy and USDC after an executed sell, so a buy is executed
\* only while the position is USDC and a sell only while it is WETH.
C39_ExecutedActionsAlternate ==
  [][\A i \in 1..MaxPolls :
       FinishTrade(i, TRUE)
       => /\ polls[i].pc = "buyWeth" => tradingState.position = "USDC"
          /\ polls[i].pc = "sellWeth" => tradingState.position = "WETH"]_vars

\* C40: the Range installed by a confirmed breakout at the price p differs
\* from the old Range, has lower < upper and contains p; a candle close at
\* the same price right after the Confirmed record therefore ends in state
\* Monitoring without a record or emits a Monitoring record, never a Pending
\* one.
C40_NewRangeContainsPrice ==
  [][\A price \in Prices, gap \in Gaps :
       /\ (CloseStep(price, gap) /\ EmitsOne /\ IsConfirmed(Last(emitted').status))
          => /\ currentRanges' # currentRanges
             /\ currentRanges'.lower < currentRanges'.upper
             /\ currentRanges'.lower <= price * RANGE_DENOMINATOR
             /\ price * RANGE_DENOMINATOR <= currentRanges'.upper
       /\ (/\ CloseStep(price, gap)
           /\ emitted # <<>>
           /\ IsConfirmed(Last(emitted).status)
           /\ Last(emitted).close = price)
          => \/ EmitsNone /\ lastPositionStatus' = "Monitoring"
             \/ EmitsOne /\ Last(emitted').status = "Monitoring"]_vars

\* a Confirmed record was followed by a Monitoring record on the Range the
\* breakout installed, and the evaluations have run to their end
C40_Witness ==
  /\ Len(emitted) >= 2
  /\ inflight = <<>>
  /\ IsConfirmed(emitted[Len(emitted) - 1].status)
  /\ Last(emitted).status = "Monitoring"
  /\ Last(emitted).close = emitted[Len(emitted) - 1].close
  /\ SameRange(Last(emitted), NewRanges(emitted[Len(emitted) - 1].close))
  /\ lastPositionStatus = "Monitoring"

====
